---------------------------- MODULE Spec2Model ----------------------------
(***************************************************************************)
(* A model of ETL/raw_to_tfrecord.py: the job that reads a zip archive of  *)
(* images and a bounding-box annotation file, writes one TFRecord per      *)
(* image and uploads the record file.                                      *)
(*                                                                         *)
(* Text is modelled as Python sees it: a str is a sequence of one-character*)
(* strings, so that endswith, split('/') and split() are computed and not  *)
(* assumed.  Numbers are the integer-valued floats (|v| < 2^31); float64   *)
(* addition is exact on them, the narrowing to float32 done by             *)
(* tf.train.FloatList is not, and is modelled by F32Round.                 *)
(***************************************************************************)
EXTENDS Integers, Sequences, FiniteSets, TLC

VARIABLES
    archive,             \* zip_ref.infolist(): the entries, in listing order
    pc,                  \* the position of the process
    args,                \* the resolved job parameters (their names)
    scanIdx,             \* file_info of the first loop (line 70)
    label_file,          \* the lines of the opened annotation resource (line 73)
    lineNo,              \* the line the loop of line 74 is at
    bboxes,              \* the dictionary of line 65
    location_txt_found,  \* the flag of line 66
    writer,              \* "unopened", "open" or "closed": the TFRecordWriter
    imgIdx,              \* file_info of the second loop (line 94)
    img,                 \* the image opened last (line 97)
    image_bboxes,        \* the boxes looked up for it (line 100)
    tfrecord,            \* the record encoded last (line 103)
    records,             \* the records in /tmp/data.tfrecord, in write order
    uploads,             \* the number of s3.upload_file calls made
    exitCode,            \* the exit status, once pc = "exited"
    log                  \* what logger.error was given, in order

vars == <<archive, pc, args, scanIdx, label_file, lineNo, bboxes,
          location_txt_found, writer, imgIdx, img, image_bboxes, tfrecord,
          records, uploads, exitCode, log>>

---------------------------------------------------------------------------
(* Bounds of the model *)

MaxEntries == 3

MaxLines == 2

MaxBoxes == 2

---------------------------------------------------------------------------
(* Python's str operations *)

EndsWith(s, suffix) ==
    /\ Len(s) >= Len(suffix)
    /\ SubSeq(s, Len(s) - Len(suffix) + 1, Len(s)) = suffix

\* s.split('/')[-1]: what follows the last '/', the whole of s when it has none
LastSegmentWhole(s) == s

LastSegment(s) ==
    LET slashes == {i \in 1..Len(s) : s[i] = "/"}
        last == IF slashes = {} THEN 0
                ELSE CHOOSE i \in slashes : \A j \in slashes : j <= i
    IN SubSeq(s, last + 1, Len(s))

\* an invalid UTF-8 byte sequence in a line of the annotation resource
BadByte == "0xFF"

\* line.decode('utf-8') raises UnicodeDecodeError on an invalid byte
Decodable(line) == \A i \in 1..Len(line) : line[i] # BadByte

Whitespace == {" ", "\t", "\n", "\r"}

\* str.strip().split(): the maximal runs of non-whitespace characters
RECURSIVE SplitFrom(_, _, _)
SplitFrom(s, i, cur) ==
    IF i > Len(s)
    THEN IF cur = <<>> THEN <<>> ELSE <<cur>>
    ELSE IF s[i] \in Whitespace
         THEN IF cur = <<>> THEN SplitFrom(s, i + 1, <<>>)
              ELSE <<cur>> \o SplitFrom(s, i + 1, <<>>)
         ELSE SplitFrom(s, i + 1, Append(cur, s[i]))

Split(s) == SplitFrom(s, 1, <<>>)

Digits == {"0", "1", "2", "3", "4", "5", "6", "7", "8", "9"}

DigitVal(c) ==
    CASE c = "0" -> 0 [] c = "1" -> 1 [] c = "2" -> 2 [] c = "3" -> 3
      [] c = "4" -> 4 [] c = "5" -> 5 [] c = "6" -> 6 [] c = "7" -> 7
      [] c = "8" -> 8 [] c = "9" -> 9

AllDigits(s) == \A i \in 1..Len(s) : s[i] \in Digits

RECURSIVE DecVal(_)
DecVal(s) ==
    IF s = <<>> THEN 0
    ELSE 10 * DecVal(SubSeq(s, 1, Len(s) - 1)) + DigitVal(s[Len(s)])

Unsigned(s) == IF s # <<>> /\ s[1] \in {"-", "+"} THEN Tail(s) ELSE s

Signed(s, v) == IF s # <<>> /\ s[1] = "-" THEN 0 - v ELSE v

\* int(s) succeeds on an optional sign and one or more digits
IntOk(s) == Unsigned(s) # <<>> /\ AllDigits(Unsigned(s))

IntVal(s) == Signed(s, DecVal(Unsigned(s)))

\* float(s) succeeds on an optional sign, digits and an optional fraction; the
\* tokens of this model have an all-zero fraction, so the value is an integer
DotAt(s) == {i \in 1..Len(s) : s[i] = "."}

FloatOk(s) ==
    LET u == Unsigned(s)
    IN \/ (u # <<>> /\ AllDigits(u))
       \/ \E d \in DotAt(u) :
             /\ AllDigits(SubSeq(u, 1, d - 1))
             /\ AllDigits(SubSeq(u, d + 1, Len(u)))
             /\ Len(u) > 1

FloatVal(s) ==
    LET u == Unsigned(s)
        d == IF DotAt(u) = {} THEN Len(u) + 1 ELSE CHOOSE i \in DotAt(u) : TRUE
    IN Signed(s, DecVal(SubSeq(u, 1, d - 1)))

---------------------------------------------------------------------------
(* tf.train.FloatList: a Python float (float64) is stored as a float32 *)

MantissaBits == 24

Pow2(n) == 2 ^ n

RECURSIVE UlpFrom(_, _)
UlpFrom(a, u) == IF a < Pow2(MantissaBits) * u THEN u ELSE UlpFrom(a, 2 * u)

\* round to nearest, ties to even, on the integer-valued floats
F32Magnitude(a) ==
    LET u == UlpFrom(a, 1)
        q == a \div u
        r == a % u
    IN IF 2 * r < u THEN q * u
       ELSE IF 2 * r > u THEN (q + 1) * u
       ELSE IF q % 2 = 0 THEN q * u ELSE (q + 1) * u

F32Round(v) == IF v < 0 THEN 0 - F32Magnitude(0 - v) ELSE F32Magnitude(v)

---------------------------------------------------------------------------
(* The names the code looks for *)

\* line 71: file_info.filename.endswith('location.txt')
LocationTxt == <<"l", "o", "c", "a", "t", "i", "o", "n", ".", "t", "x", "t">>

DotPng == <<".", "p", "n", "g">>

DotJpg == <<".", "j", "p", "g">>

DotJpeg == <<".", "j", "p", "e", "g">>

\* A faulty variant of IsImageName: '.jpeg' is forgotten
IsImageNameNoJpeg(name) == EndsWith(name, DotPng) \/ EndsWith(name, DotJpg)

\* line 95: file_info.filename.endswith(('.png', '.jpg', '.jpeg'))
IsImageName(name) ==
    EndsWith(name, DotPng) \/ EndsWith(name, DotJpg) \/ EndsWith(name, DotJpeg)

IsAnnotationName(name) == EndsWith(name, LocationTxt)

\* the four job parameters of line 16
RequiredArgs == {"source_bucket", "zip_key", "target_bucket", "output_prefix"}

---------------------------------------------------------------------------
(* The inputs: archive entry names, annotation lines, archives *)

A_JPG == <<"a", ".", "j", "p", "g">>

D_A_JPG == <<"d", "/">> \o A_JPG

B_PNG == <<"b", ".", "p", "n", "g">>

C_JPEG == <<"c", ".", "j", "p", "e", "g">>

A_UPPER == <<"a", ".", "J", "P", "G">>

IMG1_JPG == <<"i", "m", "g", "1">> \o DotJpg

NESTED_LOCATION == <<"d", "/", "g", "e", "o">> \o LocationTxt

ImageNames == {A_JPG, D_A_JPG, B_PNG, C_JPEG}

OtherNames == {A_UPPER}

AnnotationNames == {LocationTxt, NESTED_LOCATION}

RECURSIVE Join(_)
Join(tokens) ==
    IF tokens = <<>> THEN <<>>
    ELSE IF Len(tokens) = 1 THEN tokens[1]
    ELSE tokens[1] \o <<" ">> \o Join(Tail(tokens))

\* a line as iterating the file yields it: the tokens, blank-separated, and "\n"
MkLine(tokens) == Join(tokens) \o <<"\n">>

T3 == <<"3">>

T1 == <<"1">>

T10 == <<"1", "0">>

T20 == <<"2", "0">>

T5 == <<"5">>

T8 == <<"8">>

TNeg3 == <<"-", "3">>

TBig == <<"1", "6", "7", "7", "7", "2", "1", "7">>

TTwoPointZero == <<"2", ".", "0">>

TWord == <<"x", "1">>

\* the lines of the annotation resources of the archives of Spec
LineA1 == MkLine(<<A_JPG, T3, T10, T20, T5, T8>>)

LineA2 == MkLine(<<A_JPG, T1, TBig, T1, T5, TBig>>)

LineB == <<" ", " ">> \o Join(<<B_PNG, T1, T1, T1, T1, T1>>) \o <<"\t", "\r", "\n">>

LineShort == MkLine(<<A_JPG, T3, T10, T20, T5>>)

LineBadClass == MkLine(<<A_JPG, TTwoPointZero, T10, T20, T5, T8>>)

LineBadBytes == <<BadByte, "\n">>

Files ==
    { <<>>,
      <<LineA1, LineA2>>,
      <<LineShort, LineB>>,
      <<LineA1, LineBadClass>>,
      <<LineBadBytes>> }

Entries ==
    [name : ImageNames \cup OtherNames, lines : {<<>>}]
        \cup [name : AnnotationNames, lines : Files]

Archives == UNION {[1..n -> Entries] : n \in 0..MaxEntries}

\* the lines of the annotation resources of SpecParse
ParseLines ==
    { MkLine(<<n, c, x, T20, w, h>>) :
          n \in {A_JPG, IMG1_JPG}, c \in {T3, TTwoPointZero},
          x \in {T10, TWord}, w \in {T5, TNeg3}, h \in {T8} }
        \cup { <<"\n">>, LineShort, LineB, LineBadBytes,
               MkLine(<<A_JPG, T3, T10, T20, T5, T8, T1>>),
               MkLine(<<A_JPG, T3, T10, T20, T5, <<"1", "e">> >>) }

ParseFiles == UNION {[1..n -> ParseLines] : n \in 0..MaxLines}

\* the boxes handed to image_to_tfrecord in SpecEncode
EncodeBoxes ==
    [xmin : {0, 16777217}, ymin : {-3}, xmax : {5, 33554435},
     ymax : {7}, label : {1, 2}]

EncodeBoxLists == UNION {[1..n -> EncodeBoxes] : n \in 0..MaxBoxes}

---------------------------------------------------------------------------
(* The annotation parser: lines 74 to 86 *)

\* line 76: len(parts) == 6
AnnotationFields == 6

\* A faulty variant of LineAccepted: a longer line is taken too
LineAcceptedAtLeast(parts) == Len(parts) >= AnnotationFields

LineAccepted(parts) == Len(parts) = AnnotationFields

\* lines 81 to 85 raise ValueError unless float() and int() take the tokens
FieldsParse(parts) ==
    /\ FloatOk(parts[3])
    /\ FloatOk(parts[4])
    /\ FloatOk(parts[5])
    /\ FloatOk(parts[6])
    /\ IntOk(parts[2])

\* A faulty variant of MakeBBox: the far corner is the size, not corner + size
MakeBBoxNoOffset(parts) ==
    [xmin |-> FloatVal(parts[3]),
     ymin |-> FloatVal(parts[4]),
     xmax |-> FloatVal(parts[5]),
     ymax |-> FloatVal(parts[6]),
     label |-> IntVal(parts[2])]

\* lines 80 to 86; image_name, class_id, x, y, width, height = parts
MakeBBox(parts) ==
    [xmin |-> FloatVal(parts[3]),
     ymin |-> FloatVal(parts[4]),
     xmax |-> FloatVal(parts[3]) + FloatVal(parts[5]),
     ymax |-> FloatVal(parts[4]) + FloatVal(parts[6]),
     label |-> IntVal(parts[2])]

EmptyDict == [k \in {} |-> <<>>]

\* lines 78 and 79
SetDefault(d, k) == IF k \in DOMAIN d THEN d ELSE d @@ (k :> <<>>)

\* bboxes.get(k, [])
Get(d, k) == IF k \in DOMAIN d THEN d[k] ELSE <<>>

---------------------------------------------------------------------------
(* The record encoder: lines 33 to 54 *)

\* A faulty variant of ImageToTfrecord: xmaxs is read from the wrong field
ImageToTfrecordWrongField(image, boxes) ==
    [image |-> <<"JPEG", image>>,
     xmins |-> [i \in 1..Len(boxes) |-> F32Round(boxes[i].xmin)],
     xmaxs |-> [i \in 1..Len(boxes) |-> F32Round(boxes[i].xmin)],
     ymins |-> [i \in 1..Len(boxes) |-> F32Round(boxes[i].ymin)],
     ymaxs |-> [i \in 1..Len(boxes) |-> F32Round(boxes[i].ymax)],
     labels |-> [i \in 1..Len(boxes) |-> boxes[i].label]]

ImageToTfrecord(image, boxes) ==
    [image |-> <<"JPEG", image>>,
     xmins |-> [i \in 1..Len(boxes) |-> F32Round(boxes[i].xmin)],
     xmaxs |-> [i \in 1..Len(boxes) |-> F32Round(boxes[i].xmax)],
     ymins |-> [i \in 1..Len(boxes) |-> F32Round(boxes[i].ymin)],
     ymaxs |-> [i \in 1..Len(boxes) |-> F32Round(boxes[i].ymax)],
     labels |-> [i \in 1..Len(boxes) |-> boxes[i].label]]

NoRecord ==
    [image |-> <<>>, xmins |-> <<>>, xmaxs |-> <<>>, ymins |-> <<>>,
     ymaxs |-> <<>>, labels |-> <<>>]

---------------------------------------------------------------------------
(* The archive *)

\* zip_ref.open(name): ZipFile resolves a name through its name table, which
\* keeps the last entry stored under that name
ZipOpen(name) ==
    LET same == {i \in 1..Len(archive) : archive[i].name = name}
        last == CHOOSE i \in same : \A j \in same : j <= i
    IN archive[last]

---------------------------------------------------------------------------
(* The process: lines 15 to 19 and 56 to 125 *)

\* sys.exit(code)
Exit(code) == pc' = "exited" /\ exitCode' = code

\* lines 108 to 110: logger.error("Error processing images: %s", e); sys.exit(2)
Fail(e) ==
    /\ log' = Append(log, [msg |-> "Error processing images", e |-> e])
    /\ Exit(2)

Init ==
    /\ archive \in Archives
    /\ pc = "start"
    /\ args = {}
    /\ scanIdx = 1
    /\ label_file = <<>>
    /\ lineNo = 1
    /\ bboxes = EmptyDict
    /\ location_txt_found = FALSE
    /\ writer = "unopened"
    /\ imgIdx = 1
    /\ img = <<>>
    /\ image_bboxes = <<>>
    /\ tfrecord = NoRecord
    /\ records = <<>>
    /\ uploads = 0
    /\ exitCode = -1
    /\ log = <<>>

\* line 16: every required parameter was given
ParseArgs ==
    /\ pc = "start"
    /\ args' = RequiredArgs
    /\ pc' = "main"
    /\ UNCHANGED <<archive, scanIdx, label_file, lineNo, bboxes,
                   location_txt_found, writer, imgIdx, img, image_bboxes,
                   tfrecord, records, uploads, exitCode, log>>

\* lines 17 to 19: getResolvedOptions raised, a parameter is missing
ParseArgsFails ==
    /\ pc = "start"
    /\ log' = Append(log, [msg |-> "Error parsing arguments", e |-> "missing"])
    /\ Exit(2)
    /\ UNCHANGED <<archive, args, scanIdx, label_file, lineNo, bboxes,
                   location_txt_found, writer, imgIdx, img, image_bboxes,
                   tfrecord, records, uploads>>

\* lines 112 to 122
Main ==
    /\ pc = "main"
    /\ IF RequiredArgs \subseteq args
       THEN pc' = "download" /\ UNCHANGED <<exitCode, log>>
       ELSE /\ log' = Append(log, [msg |-> "Missing required arguments",
                                   e |-> "missing"])
            /\ Exit(2)
    /\ UNCHANGED <<archive, args, scanIdx, label_file, lineNo, bboxes,
                   location_txt_found, writer, imgIdx, img, image_bboxes,
                   tfrecord, records, uploads>>

\* lines 58 to 68
Download ==
    /\ pc = "download"
    /\ scanIdx' = 1
    /\ bboxes' = EmptyDict
    /\ location_txt_found' = FALSE
    /\ pc' = "scan"
    /\ UNCHANGED <<archive, args, label_file, lineNo, writer, imgIdx, img,
                   image_bboxes, tfrecord, records, uploads, exitCode, log>>

\* lines 61, 62 and 68: the object is not there, or is no zip archive
DownloadFails ==
    /\ pc = "download"
    /\ Fail("download")
    /\ UNCHANGED <<archive, args, scanIdx, label_file, lineNo, bboxes,
                   location_txt_found, writer, imgIdx, img, image_bboxes,
                   tfrecord, records, uploads>>

\* lines 70 and 71: the entry is not the annotation resource
ScanSkip ==
    /\ pc = "scan"
    /\ scanIdx <= Len(archive)
    /\ ~IsAnnotationName(archive[scanIdx].name)
    /\ scanIdx' = scanIdx + 1
    /\ UNCHANGED <<archive, pc, args, label_file, lineNo, bboxes,
                   location_txt_found, writer, imgIdx, img, image_bboxes,
                   tfrecord, records, uploads, exitCode, log>>

\* lines 71 to 73: the first entry with the suffix is opened, by its name
ScanOpen ==
    /\ pc = "scan"
    /\ scanIdx <= Len(archive)
    /\ IsAnnotationName(archive[scanIdx].name)
    /\ location_txt_found' = TRUE
    /\ label_file' = ZipOpen(archive[scanIdx].name).lines
    /\ lineNo' = 1
    /\ pc' = "parse"
    /\ UNCHANGED <<archive, args, scanIdx, bboxes, writer, imgIdx, img,
                   image_bboxes, tfrecord, records, uploads, exitCode, log>>

\* line 70: the listing is exhausted
ScanEnd ==
    /\ pc = "scan"
    /\ scanIdx > Len(archive)
    /\ pc' = "check"
    /\ UNCHANGED <<archive, args, scanIdx, label_file, lineNo, bboxes,
                   location_txt_found, writer, imgIdx, img, image_bboxes,
                   tfrecord, records, uploads, exitCode, log>>

\* the line at lineNo raises: it does not decode, or it has six tokens and
\* float() or int() refuses one (line 79 has then made the key)
LineRaises(line) ==
    \/ ~Decodable(line)
    \/ (LineAccepted(Split(line)) /\ ~FieldsParse(Split(line)))

\* A faulty variant of ParseLineRaises: the offending line is skipped
ParseLineRaisesSkips ==
    /\ pc = "parse"
    /\ lineNo <= Len(label_file)
    /\ LineRaises(label_file[lineNo])
    /\ lineNo' = lineNo + 1
    /\ UNCHANGED <<archive, pc, args, scanIdx, label_file, bboxes,
                   location_txt_found, writer, imgIdx, img, image_bboxes,
                   tfrecord, records, uploads, exitCode, log>>

\* lines 75 to 86, raising: UnicodeDecodeError or ValueError
ParseLineRaises ==
    /\ pc = "parse"
    /\ lineNo <= Len(label_file)
    /\ LineRaises(label_file[lineNo])
    /\ bboxes' = IF Decodable(label_file[lineNo])
                 THEN SetDefault(bboxes, Split(label_file[lineNo])[1])
                 ELSE bboxes
    /\ Fail(IF Decodable(label_file[lineNo]) THEN "ValueError"
            ELSE "UnicodeDecodeError")
    /\ UNCHANGED <<archive, args, scanIdx, label_file, lineNo,
                   location_txt_found, writer, imgIdx, img, image_bboxes,
                   tfrecord, records, uploads>>

\* lines 75 to 86: the line is skipped, or its box is appended
ParseLine ==
    /\ pc = "parse"
    /\ lineNo <= Len(label_file)
    /\ ~LineRaises(label_file[lineNo])
    /\ LET parts == Split(label_file[lineNo])
       IN bboxes' = IF LineAccepted(parts)
                    THEN [SetDefault(bboxes, parts[1]) EXCEPT
                             ![parts[1]] = Append(@, MakeBBox(parts))]
                    ELSE bboxes
    /\ lineNo' = lineNo + 1
    /\ UNCHANGED <<archive, pc, args, scanIdx, label_file,
                   location_txt_found, writer, imgIdx, img, image_bboxes,
                   tfrecord, records, uploads, exitCode, log>>

\* line 87: break, after the last line
ParseEnd ==
    /\ pc = "parse"
    /\ lineNo > Len(label_file)
    /\ pc' = "check"
    /\ UNCHANGED <<archive, args, scanIdx, label_file, lineNo, bboxes,
                   location_txt_found, writer, imgIdx, img, image_bboxes,
                   tfrecord, records, uploads, exitCode, log>>

\* A faulty variant of CheckFound: the error is logged and the run goes on
CheckFoundNoReturn ==
    /\ pc = "check"
    /\ log' = IF location_txt_found THEN log
              ELSE Append(log, [msg |-> "location.txt not found in the archive.",
                                e |-> "none"])
    /\ pc' = "open"
    /\ UNCHANGED <<archive, args, scanIdx, label_file, lineNo, bboxes,
                   location_txt_found, writer, imgIdx, img, image_bboxes,
                   tfrecord, records, uploads, exitCode>>

\* lines 89 to 91: without the resource, log and return; main returns and
\* the interpreter exits with status 0
CheckFound ==
    /\ pc = "check"
    /\ IF location_txt_found
       THEN pc' = "open" /\ UNCHANGED <<exitCode, log>>
       ELSE /\ log' = Append(log,
                        [msg |-> "location.txt not found in the archive.",
                         e |-> "none"])
            /\ Exit(0)
    /\ UNCHANGED <<archive, args, scanIdx, label_file, lineNo, bboxes,
                   location_txt_found, writer, imgIdx, img, image_bboxes,
                   tfrecord, records, uploads>>

\* line 93: the output file is created, empty
OpenWriter ==
    /\ pc = "open"
    /\ writer' = "open"
    /\ records' = <<>>
    /\ imgIdx' = 1
    /\ pc' = "images"
    /\ UNCHANGED <<archive, args, scanIdx, label_file, lineNo, bboxes,
                   location_txt_found, img, image_bboxes, tfrecord, uploads,
                   exitCode, log>>

\* line 93: /tmp/data.tfrecord cannot be created
OpenWriterFails ==
    /\ pc = "open"
    /\ Fail("open")
    /\ UNCHANGED <<archive, args, scanIdx, label_file, lineNo, bboxes,
                   location_txt_found, writer, imgIdx, img, image_bboxes,
                   tfrecord, records, uploads>>

\* lines 94 and 95: the entry is no image
SkipEntry ==
    /\ pc = "images"
    /\ imgIdx <= Len(archive)
    /\ ~IsImageName(archive[imgIdx].name)
    /\ imgIdx' = imgIdx + 1
    /\ UNCHANGED <<archive, pc, args, scanIdx, label_file, lineNo, bboxes,
                   location_txt_found, writer, img, image_bboxes, tfrecord,
                   records, uploads, exitCode, log>>

\* lines 95 to 104: the image is opened by its name, encoded and written
ProcessImage ==
    /\ pc = "images"
    /\ imgIdx <= Len(archive)
    /\ IsImageName(archive[imgIdx].name)
    /\ LET opened == ZipOpen(archive[imgIdx].name).name
           found == Get(bboxes, LastSegment(archive[imgIdx].name))
       IN /\ img' = opened
          /\ image_bboxes' = found
          /\ tfrecord' = ImageToTfrecord(opened, found)
          /\ records' = Append(records, ImageToTfrecord(opened, found))
    /\ imgIdx' = imgIdx + 1
    /\ UNCHANGED <<archive, pc, args, scanIdx, label_file, lineNo, bboxes,
                   location_txt_found, writer, uploads, exitCode, log>>

\* A faulty variant of ProcessImageFails: the bad image is passed over
ProcessImageFailsIsolated ==
    /\ pc = "images"
    /\ imgIdx <= Len(archive)
    /\ IsImageName(archive[imgIdx].name)
    /\ \E e \in {"decode", "encode", "write"} :
          log' = Append(log, [msg |-> "Error processing images", e |-> e])
    /\ imgIdx' = imgIdx + 1
    /\ UNCHANGED <<archive, pc, args, scanIdx, label_file, lineNo, bboxes,
                   location_txt_found, writer, img, image_bboxes, tfrecord,
                   records, uploads, exitCode>>

\* lines 96 to 104 raising (Image.open, img.save or writer.write): the with
\* statement closes the writer and the handler of line 108 ends the run
ProcessImageFails ==
    /\ pc = "images"
    /\ imgIdx <= Len(archive)
    /\ IsImageName(archive[imgIdx].name)
    /\ \E e \in {"decode", "encode", "write"} : Fail(e)
    /\ writer' = "closed"
    /\ UNCHANGED <<archive, args, scanIdx, label_file, lineNo, bboxes,
                   location_txt_found, imgIdx, img, image_bboxes, tfrecord,
                   records, uploads>>

\* line 93, leaving the with statement after the last entry
CloseWriter ==
    /\ pc = "images"
    /\ imgIdx > Len(archive)
    /\ writer' = "closed"
    /\ pc' = "upload"
    /\ UNCHANGED <<archive, args, scanIdx, label_file, lineNo, bboxes,
                   location_txt_found, imgIdx, img, image_bboxes, tfrecord,
                   records, uploads, exitCode, log>>

\* line 107, then the return of main: exit status 0
Upload ==
    /\ pc = "upload"
    /\ uploads' = uploads + 1
    /\ Exit(0)
    /\ UNCHANGED <<archive, args, scanIdx, label_file, lineNo, bboxes,
                   location_txt_found, writer, imgIdx, img, image_bboxes,
                   tfrecord, records, log>>

\* line 107 raising
UploadFails ==
    /\ pc = "upload"
    /\ uploads' = uploads + 1
    /\ Fail("upload")
    /\ UNCHANGED <<archive, args, scanIdx, label_file, lineNo, bboxes,
                   location_txt_found, writer, imgIdx, img, image_bboxes,
                   tfrecord, records>>

Next ==
    \/ ParseArgs
    \/ ParseArgsFails
    \/ Main
    \/ Download
    \/ DownloadFails
    \/ ScanSkip
    \/ ScanOpen
    \/ ScanEnd
    \/ ParseLine
    \/ ParseLineRaises
    \/ ParseEnd
    \/ CheckFound
    \/ OpenWriter
    \/ OpenWriterFails
    \/ SkipEntry
    \/ ProcessImage
    \/ ProcessImageFails
    \/ CloseWriter
    \/ Upload
    \/ UploadFails

Spec == Init /\ [][Next]_vars

---------------------------------------------------------------------------
(* The parser alone, on every annotation resource of up to MaxLines lines *)

InitParse ==
    /\ label_file \in ParseFiles
    /\ archive = <<[name |-> LocationTxt, lines |-> label_file]>>
    /\ pc = "parse"
    /\ args = RequiredArgs
    /\ scanIdx = 1
    /\ lineNo = 1
    /\ bboxes = EmptyDict
    /\ location_txt_found = TRUE
    /\ writer = "unopened"
    /\ imgIdx = 1
    /\ img = <<>>
    /\ image_bboxes = <<>>
    /\ tfrecord = NoRecord
    /\ records = <<>>
    /\ uploads = 0
    /\ exitCode = -1
    /\ log = <<>>

NextParse == ParseLine \/ ParseLineRaises \/ ParseEnd

SpecParse == InitParse /\ [][NextParse]_vars

---------------------------------------------------------------------------
(* The encoder alone, on every list of up to MaxBoxes boxes *)

InitEncode ==
    /\ img \in ImageNames
    /\ image_bboxes \in EncodeBoxLists
    /\ tfrecord = NoRecord
    /\ archive = <<>>
    /\ pc = "encode"
    /\ args = RequiredArgs
    /\ scanIdx = 1
    /\ label_file = <<>>
    /\ lineNo = 1
    /\ bboxes = EmptyDict
    /\ location_txt_found = TRUE
    /\ writer = "open"
    /\ imgIdx = 1
    /\ records = <<>>
    /\ uploads = 0
    /\ exitCode = -1
    /\ log = <<>>

\* line 103: tfrecord = image_to_tfrecord(img, image_bboxes)
Encode ==
    /\ pc = "encode"
    /\ tfrecord' = ImageToTfrecord(img, image_bboxes)
    /\ pc' = "encoded"
    /\ UNCHANGED <<archive, args, scanIdx, label_file, lineNo, bboxes,
                   location_txt_found, writer, imgIdx, img, image_bboxes,
                   records, uploads, exitCode, log>>

NextEncode == Encode

SpecEncode == InitEncode /\ [][NextEncode]_vars

---------------------------------------------------------------------------
(* What the properties below are stated with *)

\* the names of the archive's entries, in listing order
EntryNames == [i \in 1..Len(archive) |-> archive[i].name]

\* the name ends in '.png', '.jpg' or '.jpeg', compared character by character
EndsInImageSuffix(name) ==
    \E suffix \in {DotPng, DotJpg, DotJpeg} :
        /\ Len(name) >= Len(suffix)
        /\ \A i \in 1..Len(suffix) :
              name[Len(name) - Len(suffix) + i] = suffix[i]

EndsInLocationTxt(name) ==
    /\ Len(name) >= Len(LocationTxt)
    /\ \A i \in 1..Len(LocationTxt) :
          name[Len(name) - Len(LocationTxt) + i] = LocationTxt[i]

ImageEntryNames == SelectSeq(EntryNames, EndsInImageSuffix)

\* the entry name each record was made from
RecordNames == [j \in 1..Len(records) |-> records[j].image[2]]

NoAnnotationEntry == \A i \in 1..Len(archive) : ~EndsInLocationTxt(archive[i].name)

CompletedOk == pc = "exited" /\ exitCode = 0 /\ uploads = 1

ImageFailed == \E i \in 1..Len(log) : log[i].e \in {"decode", "encode", "write"}

\* the number of tokens str.split() yields: the starts of non-blank runs
CountTokens(line) ==
    Cardinality({i \in 1..Len(line) :
                    /\ line[i] \notin Whitespace
                    /\ (i = 1 \/ line[i - 1] \in Whitespace)})

RECURSIVE SumLen(_, _)
SumLen(d, keys) ==
    IF keys = {} THEN 0
    ELSE LET k == CHOOSE x \in keys : TRUE
         IN Len(d[k]) + SumLen(d, keys \ {k})

\* the number of bounding boxes in an AnnotationIndex
BoxCount(d) == SumLen(d, DOMAIN d)

ReadingLine == pc = "parse" /\ lineNo <= Len(label_file)

\* what follows the last '/' of a name
BaseName(name) ==
    LET k == CHOOSE c \in 0..Len(name) :
                 /\ \A i \in (c + 1)..Len(name) : name[i] # "/"
                 /\ (c = 0 \/ name[c] = "/")
    IN [i \in 1..(Len(name) - k) |-> name[k + i]]

\* the boxes of the six-token lines named base, in line order
RECURSIVE BoxesOf(_, _)
BoxesOf(lines, base) ==
    IF lines = <<>> THEN <<>>
    ELSE LET p == Split(Head(lines))
         IN (IF CountTokens(Head(lines)) = 6 /\ p[1] = base
             THEN << [xmin |-> FloatVal(p[3]), ymin |-> FloatVal(p[4]),
                      xmax |-> FloatVal(p[3]) + FloatVal(p[5]),
                      ymax |-> FloatVal(p[4]) + FloatVal(p[6]),
                      label |-> IntVal(p[2])] >>
             ELSE <<>>) \o BoxesOf(Tail(lines), base)

\* a six-token line one of whose numbers float() or int() refuses
BadValueLine(line) ==
    /\ Decodable(line)
    /\ CountTokens(line) = 6
    /\ ~FieldsParse(Split(line))

---------------------------------------------------------------------------
(* The claims *)

\* C1: when the archive holds an annotation entry and the run completes
\* without error, the records written are, in order, one for each entry whose
\* name ends in '.png', '.jpg' or '.jpeg', and there is no other record.
C1_OneRecordPerImageEntry ==
    (CompletedOk /\ ~NoAnnotationEntry) => RecordNames = ImageEntryNames

C1_Witness ==
    /\ CompletedOk
    /\ Len(records) = 2
    /\ records[1].image # records[2].image
    /\ Len(archive) = 3

\* C2: with no entry whose name ends in 'location.txt', the output is never
\* opened or written, no upload is attempted, and a run that got to scan the
\* archive ends having reported that location.txt was not found.
C2_NoAnnotationNoOutput ==
    NoAnnotationEntry =>
        /\ writer = "unopened"
        /\ records = <<>>
        /\ uploads = 0
        /\ pc \notin {"parse", "open", "images", "upload"}
        /\ (pc = "exited" /\ log[Len(log)].e \notin {"missing", "download"})
              => log[Len(log)].msg = "location.txt not found in the archive."

C2_Witness ==
    /\ NoAnnotationEntry
    /\ pc = "exited"
    /\ log[Len(log)].msg = "location.txt not found in the archive."
    /\ Len(ImageEntryNames) >= 2

\* C3: the exit status is 0 exactly on full success (everything written and
\* uploaded, nothing reported) and 2 on every failure, a missing annotation
\* resource included.
C3_ExitStatus ==
    pc = "exited" =>
        exitCode = (IF log = <<>> /\ uploads = 1 /\ writer = "closed"
                    THEN 0 ELSE 2)

\* C4: the upload is attempted at most once, and only after the annotation
\* resource was found and read to its end, every image entry was written and
\* the output was closed; once an image fails, the run has ended with no
\* upload and with no record of the failing or of any later image.
C4_UploadOnlyAfterAll ==
    /\ uploads <= 1
    /\ uploads = 1 =>
          /\ location_txt_found
          /\ lineNo > Len(label_file)
          /\ writer = "closed"
          /\ imgIdx > Len(archive)
          /\ Len(records) = Len(ImageEntryNames)
          /\ ~ImageFailed
    /\ ImageFailed =>
          /\ pc = "exited"
          /\ exitCode = 2
          /\ uploads = 0
          /\ Len(records) = Len(SelectSeq(SubSeq(EntryNames, 1, imgIdx - 1),
                                          EndsInImageSuffix))

C4_Witness ==
    /\ ImageFailed
    /\ \E i \in (imgIdx + 1)..Len(archive) : EndsInImageSuffix(archive[i].name)

\* C5, as claimed: a line that decodes adds a bounding box to the index if
\* and only if it splits into exactly 6 tokens; with any other token count it
\* leaves the index as it was, reports nothing, and the next line is read.
C5_SixTokensIffBox ==
    [][(ReadingLine /\ Decodable(label_file[lineNo])) =>
          LET n == CountTokens(label_file[lineNo])
          IN /\ (BoxCount(bboxes') = BoxCount(bboxes) + 1) <=> (n = 6)
             /\ n # 6 => /\ bboxes' = bboxes
                         /\ pc' = "parse"
                         /\ lineNo' = lineNo + 1
                         /\ log' = log]_vars

\* C5, amended: a line that decodes adds a bounding box to the index if and
\* only if it splits into exactly 6 tokens of which class_id is an integer
\* and x, y, width and height are numbers; with any other token count it
\* leaves the index as it was, reports nothing, and the next line is read.
C5_SixParsedTokensIffBox ==
    [][(ReadingLine /\ Decodable(label_file[lineNo])) =>
          LET n == CountTokens(label_file[lineNo])
          IN /\ (BoxCount(bboxes') = BoxCount(bboxes) + 1)
                   <=> (n = 6 /\ FieldsParse(Split(label_file[lineNo])))
             /\ n # 6 => /\ bboxes' = bboxes
                         /\ pc' = "parse"
                         /\ lineNo' = lineNo + 1
                         /\ log' = log]_vars

\* a line of another length was passed over and the line after it gave a box
C5_Witness ==
    /\ pc = "parse"
    /\ lineNo = 3
    /\ CountTokens(label_file[1]) \in {0, 5, 7}
    /\ CountTokens(label_file[2]) = 6
    /\ BoxCount(bboxes) = 1

\* C6: the box an accepted line 'image_name class_id x y width height' adds
\* is appended under image_name and has xmin = x, ymin = y, xmax = x + width,
\* ymax = y + height and label = class_id; 'img1.jpg 3 10 20 5 8' gives
\* xmin 10, ymin 20, xmax 15, ymax 28, label 3.
C6_BoxOfLine ==
    [][(ReadingLine /\ BoxCount(bboxes') = BoxCount(bboxes) + 1) =>
          LET p == Split(label_file[lineNo])
              b == bboxes'[p[1]][Len(bboxes'[p[1]])]
          IN /\ Len(bboxes'[p[1]]) = Len(Get(bboxes, p[1])) + 1
             /\ b.xmin = FloatVal(p[3])
             /\ b.ymin = FloatVal(p[4])
             /\ b.xmax = FloatVal(p[3]) + FloatVal(p[5])
             /\ b.ymax = FloatVal(p[4]) + FloatVal(p[6])
             /\ b.label = IntVal(p[2])
             /\ label_file[lineNo] = MkLine(<<IMG1_JPG, T3, T10, T20, T5, T8>>)
                   => b = [xmin |-> 10, ymin |-> 20, xmax |-> 15, ymax |-> 28,
                           label |-> 3]]_vars

C6_Witness ==
    /\ lineNo = 2
    /\ label_file[1] = MkLine(<<IMG1_JPG, T3, T10, T20, T5, T8>>)
    /\ IMG1_JPG \in DOMAIN bboxes
    /\ bboxes[IMG1_JPG] =
          << [xmin |-> 10, ymin |-> 20, xmax |-> 15, ymax |-> 28, label |-> 3] >>

\* C7, as claimed: in the record image_to_tfrecord makes, the five lists are
\* as long as the list of boxes and the i-th element of each is the
\* corresponding field of the i-th box.
C7_ListsAreFields ==
    pc = "encoded" =>
        /\ Len(tfrecord.xmins) = Len(image_bboxes)
        /\ Len(tfrecord.xmaxs) = Len(image_bboxes)
        /\ Len(tfrecord.ymins) = Len(image_bboxes)
        /\ Len(tfrecord.ymaxs) = Len(image_bboxes)
        /\ Len(tfrecord.labels) = Len(image_bboxes)
        /\ \A i \in 1..Len(image_bboxes) :
              /\ tfrecord.xmins[i] = image_bboxes[i].xmin
              /\ tfrecord.xmaxs[i] = image_bboxes[i].xmax
              /\ tfrecord.ymins[i] = image_bboxes[i].ymin
              /\ tfrecord.ymaxs[i] = image_bboxes[i].ymax
              /\ tfrecord.labels[i] = image_bboxes[i].label

\* C7, amended: the five lists are as long as the list of boxes; the i-th
\* element of each coordinate list is the corresponding field of the i-th
\* box rounded to the nearest 32-bit float, and the i-th label is the i-th
\* box's label.
C7_ListsAreFloat32Fields ==
    pc = "encoded" =>
        /\ Len(tfrecord.xmins) = Len(image_bboxes)
        /\ Len(tfrecord.xmaxs) = Len(image_bboxes)
        /\ Len(tfrecord.ymins) = Len(image_bboxes)
        /\ Len(tfrecord.ymaxs) = Len(image_bboxes)
        /\ Len(tfrecord.labels) = Len(image_bboxes)
        /\ \A i \in 1..Len(image_bboxes) :
              /\ tfrecord.xmins[i] = F32Round(image_bboxes[i].xmin)
              /\ tfrecord.xmaxs[i] = F32Round(image_bboxes[i].xmax)
              /\ tfrecord.ymins[i] = F32Round(image_bboxes[i].ymin)
              /\ tfrecord.ymaxs[i] = F32Round(image_bboxes[i].ymax)
              /\ tfrecord.labels[i] = image_bboxes[i].label

C7_Witness ==
    /\ pc = "encoded"
    /\ Len(image_bboxes) = 2
    /\ image_bboxes[1].label # image_bboxes[2].label
    /\ image_bboxes[1].xmin = 16777217
    /\ tfrecord.xmins[1] = 16777216
    /\ tfrecord.labels = <<image_bboxes[1].label, image_bboxes[2].label>>

C9_FirstAnnotationEntryOnly ==
    location_txt_found =>
        LET first == CHOOSE i \in 1..Len(archive) :
                        /\ EndsInLocationTxt(archive[i].name)
                        /\ \A j \in 1..(i - 1) : ~EndsInLocationTxt(archive[j].name)
        IN label_file = archive[first].lines

\* C10: when the annotation resource read has a six-token line whose class_id
\* is no integer or whose x, y, width or height is no number, the output is
\* never opened, nothing is written or uploaded, and the run does not get
\* past the parsing: it ends with exit status 2 and the failure reported.
C10_BadValueAborts ==
    (\E i \in 1..Len(label_file) : BadValueLine(label_file[i])) =>
        /\ writer = "unopened"
        /\ records = <<>>
        /\ uploads = 0
        /\ pc \in {"parse", "exited"}
        /\ pc = "exited" =>
              /\ exitCode = 2
              /\ log[Len(log)].msg = "Error processing images"

C10_Witness ==
    /\ pc = "exited"
    /\ exitCode = 2
    /\ log[Len(log)].e = "ValueError"
    /\ lineNo = 2
    /\ BadValueLine(label_file[2])
    /\ ~BadValueLine(label_file[1])
    /\ Len(ImageEntryNames) >= 1

===========================================================================
